---- MODULE Spec2Model ----
(***************************************************************************)
(* Model of ui/components.py: the guided requirement workflow state        *)
(* machine kept in st.session_state, the log viewer's file selection and   *)
(* tail, the sidebar event feed and the system monitor.                    *)
(* Texts are sequences of characters so that str.strip() is computed.      *)
(***************************************************************************)
EXTENDS Integers, Sequences, FiniteSets, TLC

VARIABLES
    ss,               \* st.session_state
    fired,            \* the operation executed last
    accepted,         \* whether that operation's guard let it act
    prev_doc,         \* confirmed_requirement_text before that operation
    shown,            \* the messages that operation displayed
    ret,              \* what guided_requirement_workflow returned
    widgets,          \* Streamlit's record of the keyed text areas
    log_files,        \* the *.jsonl files of the logs directory, with their mtime
    logs_dir_exists,
    glob_order,       \* the files of the directory in the order glob yields them
    log_outcome,      \* how the last render_log_viewer call ended
    log_displayed,    \* the file whose tail that call displayed
    log_error,        \* the file that call's st.error names
    log_calls,        \* whole render_log_viewer calls since files or start time changed
    viewer,           \* render_log_viewer: its position and locals
    tail,             \* the selected file's lines, max_lines and what the tail displayed
    sidebar_events,   \* st.session_state.sidebar_events
    feed              \* render_sidebar_feed: its position, locals and displayed cards

vars == <<ss, fired, accepted, prev_doc, shown, ret, widgets,
          log_files, logs_dir_exists, glob_order, log_outcome, log_displayed,
          log_error, log_calls, viewer, tail, sidebar_events, feed>>

(* ------------------------------ bounds -------------------------------- *)

\* how many texts of TextPool a user or the generation collaborator may enter
\* as initial requirement or requirements document
NumTexts == 4
\* how many texts of TextPool may be typed as an answer
NumAnswerTexts == 3
\* how many texts of TextPool may be typed as edit feedback
NumFeedbackTexts == 2
\* most questions the generation collaborator returns
MaxQuestions == 2

\* texts as sequences of characters: empty, blank, plain and padded ones
TextPool == << <<>>, <<" ">>, <<"a">>, <<" ", "b">>, <<"a", " ">>, <<"b">>,
               <<"a", "b">>, <<" ", " ">> >>

FirstTexts(n) == {TextPool[i] : i \in 1..n}

Texts == FirstTexts(NumTexts)

\* answers: empty, plain, padded and blank ones, with two different texts
AnswerPool == << <<>>, <<"a">>, <<" ", "b">>, <<" ">>, <<"a", " ">> >>

AnswerTexts == {AnswerPool[i] : i \in 1..NumAnswerTexts}

\* edit feedback: blank, plain, empty and padded
FeedbackPool == << <<" ">>, <<"a">>, <<>>, <<" ", "a">> >>

FeedbackTexts == {FeedbackPool[i] : i \in 1..NumFeedbackTexts}

\* how many log files the logs directory may hold
NumLogFiles == 2
\* latest modification time of a log file, in seconds
MaxMtime == 1

\* tolerance = 10.0
Tolerance == 10

LogFilePool == <<"run1.jsonl", "run2.jsonl", "run3.jsonl", "run4.jsonl">>

LogFileNames == {LogFilePool[i] : i \in 1..NumLogFiles}

Mtimes == 0..MaxMtime

\* a task starts at second Tolerance + 1: files modified at second 0 are too
\* old for it, files modified at second 1 are exactly on the limit
StartTimes == {Tolerance + 1}

\* workflow_start_time when no task is running (None, falsy)
NoStart == 0

\* an empty dict
EmptyMap == [k \in {} |-> <<>>]

\* Python's None, kept apart from every text
None == <<"None">>

\* the value of a key st.session_state does not hold
Absent == <<"absent">>

\* the "id" field of a generated question; "None" when the question has none
QuestionIds == {"None", "1"}

QuestionLists == UNION {[1..n -> QuestionIds] : n \in 0..MaxQuestions}

\* how many lines of LinePool a log file may hold
NumLines == 9
\* most lines of a log file
MaxContent == 3
\* largest max_lines a caller passes
MaxTailLines == 2
\* characters of a message or raw line that are displayed
DisplayLimit == 200

\* log lines by what json.loads makes of them: "text" is not JSON, "object"
\* is a JSON object with a level and a message of len characters, "value" is
\* JSON that is not an object; len is the length without the pad surrounding
\* whitespace characters; strings is whether the object's values are strings
LinePool ==
    << [kind |-> "text", level |-> "", strings |-> TRUE, len |-> 0, pad |-> 0],
       [kind |-> "text", level |-> "", strings |-> TRUE, len |-> 0, pad |-> 2],
       [kind |-> "text", level |-> "", strings |-> TRUE, len |-> 5, pad |-> 0],
       [kind |-> "object", level |-> "ERROR", strings |-> TRUE, len |-> 5, pad |-> 0],
       [kind |-> "value", level |-> "", strings |-> TRUE, len |-> 2, pad |-> 0],
       [kind |-> "text", level |-> "", strings |-> TRUE,
        len |-> DisplayLimit + 1, pad |-> 1],
       [kind |-> "object", level |-> "WARNING", strings |-> TRUE,
        len |-> DisplayLimit + 1, pad |-> 0],
       [kind |-> "object", level |-> "task_success", strings |-> TRUE,
        len |-> 5, pad |-> 1],
       [kind |-> "object", level |-> "INFO", strings |-> TRUE, len |-> 5, pad |-> 0],
       [kind |-> "object", level |-> "7", strings |-> FALSE, len |-> 1, pad |-> 0] >>

LogLines == {LinePool[i] : i \in 1..NumLines}

\* the contents of a log file after splitlines()
Contents == UNION {[1..n -> LogLines] : n \in 0..MaxContent}

\* how many events the pipeline appends in all
MaxEvents == 4
\* how many events the pipeline keeps in the store
StoreCap == 3
\* largest max_items a caller passes
MaxItems == 3

(* --------------------------- pure functions --------------------------- *)

RECURSIVE LStrip(_)
LStrip(s) == IF s # <<>> /\ Head(s) = " " THEN LStrip(Tail(s)) ELSE s

RECURSIVE RStrip(_)
RStrip(s) == IF s # <<>> /\ s[Len(s)] = " " THEN RStrip(SubSeq(s, 1, Len(s) - 1)) ELSE s

\* str.strip()
Strip(s) == RStrip(LStrip(s))

\* st.button(..., disabled=d): a disabled button never reports a click
Button(clicked, disabled) == clicked /\ ~disabled

\* q_id = str(question.get("id") or ... or idx), idx counted from 0
QId(questions, i) == IF questions[i] = "None" THEN ToString(i - 1) ELSE questions[i]

\* keys of st.session_state starting with "guided_answer_" are dropped
clear_guided_answer_inputs(s) == [s EXCEPT !.guided_answer = EmptyMap]

\* mutant: the reset forgets user_answers
reset_KeepsAnswers(s, preserve_initial) ==
    LET initial_text == IF ~preserve_initial THEN <<>>
                        ELSE IF s.guided_initial_requirement # Absent
                             THEN s.guided_initial_requirement
                             ELSE s.initial_requirement
        s1 == IF preserve_initial THEN s ELSE [s EXCEPT !.initial_requirement = <<>>]
    IN clear_guided_answer_inputs(
         [s1 EXCEPT !.guided_initial_requirement = initial_text,
                    !.guided_edit_feedback = <<>>,
                    !.requirement_analysis_step = "input",
                    !.generated_questions = <<>>,
                    !.detailed_requirements = <<>>,
                    !.questions_generating = FALSE,
                    !.requirements_generating = FALSE,
                    !.requirements_confirmed = FALSE,
                    !.requirements_editing = FALSE,
                    !.edit_feedback = <<>>,
                    !.confirmed_requirement_text = None])

reset_guided_workflow_state(s, preserve_initial) ==
    LET initial_text == IF ~preserve_initial THEN <<>>
                        ELSE IF s.guided_initial_requirement # Absent
                             THEN s.guided_initial_requirement
                             ELSE s.initial_requirement
        s1 == IF preserve_initial THEN s ELSE [s EXCEPT !.initial_requirement = <<>>]
    IN clear_guided_answer_inputs(
         [s1 EXCEPT !.guided_initial_requirement = initial_text,
                    !.guided_edit_feedback = <<>>,
                    !.requirement_analysis_step = "input",
                    !.generated_questions = <<>>,
                    !.user_answers = EmptyMap,
                    !.detailed_requirements = <<>>,
                    !.questions_generating = FALSE,
                    !.requirements_generating = FALSE,
                    !.requirements_confirmed = FALSE,
                    !.requirements_editing = FALSE,
                    !.edit_feedback = <<>>,
                    !.confirmed_requirement_text = None])

\* the answer widgets of the questions stage: a missing guided_answer_<idx>
\* key is created from user_answers.get(q_id, "")
RenderAnswerInputs(s) ==
    LET qs == s.generated_questions
        default(i) == IF QId(qs, i) \in DOMAIN s.user_answers
                      THEN s.user_answers[QId(qs, i)] ELSE <<>>
    IN [s EXCEPT !.guided_answer =
          [idx \in (DOMAIN s.guided_answer) \cup {i - 1 : i \in 1..Len(qs)} |->
              IF idx \in DOMAIN s.guided_answer THEN s.guided_answer[idx]
              ELSE default(idx + 1)]]

\* answers_payload: stripped non-empty answers keyed by q_id, a later
\* question with the same q_id overwriting an earlier one
AnswersPayload(s) ==
    LET qs == s.generated_questions
        answered == {i \in 1..Len(qs) : Strip(s.guided_answer[i - 1]) # <<>>}
        last(k) == CHOOSE i \in answered :
                      /\ QId(qs, i) = k
                      /\ \A j \in answered : QId(qs, j) = k => j <= i
    IN [k \in {QId(qs, i) : i \in answered} |-> Strip(s.guided_answer[last(k) - 1])]

\* the value of the summary stage's local "summary"
Summary(s) == Strip(s.detailed_requirements)

\* return (confirmed_doc if confirmed_doc else None, bool(confirmed_doc))
Return(confirmed_doc) ==
    [kind |-> "return",
     doc |-> IF confirmed_doc # None /\ confirmed_doc # <<>> THEN confirmed_doc ELSE None,
     confirmed |-> confirmed_doc # None /\ confirmed_doc # <<>>]

\* st.rerun() ends the call without a return value
Rerun == [kind |-> "rerun", doc |-> None, confirmed |-> FALSE]

\* an exception leaves the call; its last lines do not run
Raised == [kind |-> "raised", doc |-> None, confirmed |-> FALSE]

\* st.success at the end of the call when confirmed_doc was set at its start
Locked(s) == IF s.confirmed_requirement_text # None /\ s.confirmed_requirement_text # <<>>
             THEN {"success_locked"} ELSE {}

\* the messages a stage shows on every render
StageMessages(s) ==
    CASE s.requirement_analysis_step = "questions" ->
           (IF s.questions_generating THEN {"info_questions_generating"} ELSE {})
           \cup (IF s.generated_questions = <<>> THEN {"caption_no_questions"} ELSE {})
      [] s.requirement_analysis_step = "summary" ->
           (IF s.requirements_generating THEN {"info_requirements_generating"} ELSE {})
           \cup (IF Summary(s) = <<>> THEN {"caption_waiting_document"} ELSE {})
      [] OTHER -> {}

\* lines 718-723: setdefault gives an absent text-area key the stored text
SetDefaults(s) ==
    [s EXCEPT !.guided_initial_requirement =
                  IF @ = Absent THEN s.initial_requirement ELSE @,
              !.guided_edit_feedback =
                  IF @ = Absent THEN s.edit_feedback ELSE @]

\* the keys those two lines assign
DefaultedKeys(s) ==
    {k \in {"guided_initial_requirement", "guided_edit_feedback"} : s[k] = Absent}

\* the session a guided_requirement_workflow call works on after line 723
Session == SetDefaults(ss)

Step == ss.requirement_analysis_step

\* the keyed text areas a stage creates; the answer inputs count as one
Rendered(stage) ==
    CASE stage = "input" -> {"guided_initial_requirement"}
      [] stage = "questions" -> {"guided_answer"}
      [] stage = "editing" -> {"guided_edit_feedback"}
      [] OTHER -> {}

\* the names "fired" takes for a guided_requirement_workflow call
WorkflowCalls == {"generate_questions", "skip_to_spec", "generate_doc",
                  "generate_doc_without_answers", "back", "confirm",
                  "request_edit", "restart", "submit_change", "back_to_summary",
                  "render"}

\* the script run of a call that has returned ends with Streamlit's widget
\* clean-up before the page does anything else
CleanupDue == fired \in WorkflowCalls /\ ret.kind = "return"

\* the page calls guided_requirement_workflow only in guided mode, once per
\* script run
GuidedActive == ss.requirement_analysis_mode = "guided" /\ ~CleanupDue

\* the script run of a guided_requirement_workflow call: the text areas it
\* creates are known to Streamlit from then on, and the keys it has created or
\* assigned are the ones its clean-up keeps; a run that an exception ends has
\* no clean-up
WorkflowRun(assigned) ==
    widgets' = [known |-> widgets.known \cup Rendered(Step),
                live |-> IF ret'.kind = "raised" THEN {}
                         ELSE Rendered(Step) \cup DefaultedKeys(ss) \cup assigned]

\* user input and write-backs come between two script runs
BetweenRuns == ~CleanupDue /\ widgets' = [widgets EXCEPT !.live = {}]

\* the assignments of reset_guided_workflow_state to text-area keys
ResetKeys == {"guided_initial_requirement", "guided_edit_feedback"}

\* history of the last operation
Fired(operation) == fired' = operation /\ prev_doc' = ss.confirmed_requirement_text

LogUnchanged == UNCHANGED <<log_files, logs_dir_exists, glob_order, log_outcome,
                            log_displayed, log_error, log_calls, viewer,
                            tail, sidebar_events, feed>>

(* --------------------------- log selection --------------------------- *)

\* the orders in which glob may yield the files of a set: the order is that
\* of the directory, not of the names or of the modification times
DirectoryListings(names) ==
    {order \in [1..Cardinality(names) -> names] :
        \A i, j \in 1..Cardinality(names) : i # j => order[i] # order[j]}

\* the listing without file f
Unlisted(order, f) ==
    LET keep == {i \in DOMAIN order : order[i] # f}
        nth(r) == CHOOSE i \in keep : Cardinality({j \in keep : j < i}) = r - 1
    IN [r \in 1..Cardinality(keep) |-> order[nth(r)]]

\* sorted(files, key=mtime, reverse=True) with keys[i] the st_mtime read for
\* files[i]: newest first, files of equal modification time in the order glob
\* yielded them (the sort is stable)
SortedLogFiles(files, keys) ==
    LET n == Len(files)
        before(i, j) == keys[i] > keys[j] \/ (keys[i] = keys[j] /\ i < j)
        nth(r) == CHOOSE i \in 1..n : Cardinality({j \in 1..n : before(j, i)}) = r - 1
    IN [r \in 1..n |-> files[nth(r)]]

\* file_mtime >= (start_ts - tolerance)
Eligible(file_mtime, start_ts) == file_mtime >= start_ts - Tolerance

\* mutant: a file other than the remembered one is preferred
PrevOrNewest_AvoidsRemembered(order, prev, prev_exists) ==
    LET fresh == {i \in DOMAIN order : order[i] # prev}
    IN IF fresh = {} THEN order[1]
       ELSE order[CHOOSE i \in fresh : \A j \in fresh : i <= j]

\* selected_path without a start time: the remembered file if it exists,
\* log_files[0] otherwise
PrevOrNewest(order, prev, prev_exists) ==
    IF prev # "None" /\ prev_exists THEN prev ELSE order[1]

(* ------------------------------- Init --------------------------------- *)

DefaultSession ==
    [requirement_analysis_mode |-> "direct",
     requirement_analysis_step |-> "input",
     guided_initial_requirement |-> <<>>,
     initial_requirement |-> <<>>,
     guided_edit_feedback |-> <<>>,
     edit_feedback |-> <<>>,
     generated_questions |-> <<>>,
     user_answers |-> EmptyMap,
     guided_answer |-> EmptyMap,
     detailed_requirements |-> <<>>,
     questions_generating |-> FALSE,
     requirements_generating |-> FALSE,
     requirements_confirmed |-> FALSE,
     requirements_editing |-> FALSE,
     confirmed_requirement_text |-> None,
     workflow_start_time |-> NoStart,
     active_log_file |-> "None"]

\* max_lines of render_log_viewer when the caller gives none
DefaultMaxLines == 50
\* max_items of render_sidebar_feed when the caller gives none
DefaultMaxItems == 12

\* render_log_viewer is not running; entries are the names the directory scan
\* of the running call gave, files its log_files, keys the modification times
\* read for the sort; writer tells what the log writer has done since the
\* running call began: nothing ("still"), only removals ("removing"), or it
\* has created a file or written to one ("writing")
IdleViewer ==
    [pc |-> "idle", entries |-> <<>>, files |-> <<>>, keys |-> <<>>, idx |-> 0,
     writer |-> "still"]

\* no tail computed yet
IdleTail ==
    [content |-> <<>>, max_lines |-> DefaultMaxLines,
     outcome |-> "not_called", records |-> <<>>]

\* render_sidebar_feed is not running; no event was appended yet
IdleFeed ==
    [pc |-> "idle", max_items |-> DefaultMaxItems, events |-> <<>>,
     recent_events |-> <<>>, cards |-> <<>>, empty_state |-> FALSE,
     last_cleared |-> "None", seen |-> {}, appended |-> 0,
     latest_event |-> "None"]

Init ==
    /\ ss = DefaultSession
    /\ fired = "none"
    /\ prev_doc = None
    /\ accepted = FALSE
    /\ shown = {}
    /\ ret = Rerun
    /\ widgets = [known |-> {}, live |-> {}]
    /\ log_files = EmptyMap
    /\ logs_dir_exists = FALSE
    /\ glob_order = <<>>
    /\ log_outcome = "not_called"
    /\ log_displayed = "None"
    /\ log_error = "None"
    /\ log_calls = 0
    /\ viewer = IdleViewer
    /\ tail = IdleTail
    /\ sidebar_events = <<>>
    /\ feed = IdleFeed

(* ---------------------- requirement_mode_selector --------------------- *)

SelectMode(selection) ==
    /\ selection # ss.requirement_analysis_mode
    /\ ss' = IF selection = "direct"
             THEN reset_guided_workflow_state(
                    [ss EXCEPT !.requirement_analysis_mode = selection], FALSE)
             ELSE [ss EXCEPT !.requirement_analysis_mode = selection,
                             !.requirement_analysis_step = "input"]
    /\ Fired(IF selection = "direct" THEN "select_direct" ELSE "select_guided")
    /\ accepted' = TRUE
    /\ shown' = {}
    /\ ret' = Rerun
    /\ widgets' = [widgets EXCEPT !.live = {}]
    /\ LogUnchanged

(* ------------------------- text area widgets -------------------------- *)

TypeInitialRequirement(t) ==
    /\ GuidedActive /\ Step = "input"
    /\ ss.guided_initial_requirement # Absent
    /\ t # ss.guided_initial_requirement
    /\ ss' = [ss EXCEPT !.guided_initial_requirement = t]
    /\ Fired("type_initial") /\ accepted' = TRUE
    /\ shown' = {} /\ ret' = Rerun
    /\ BetweenRuns
    /\ LogUnchanged

TypeAnswer(idx, t) ==
    /\ GuidedActive /\ Step = "questions"
    /\ idx \in DOMAIN ss.guided_answer
    /\ idx < Len(ss.generated_questions)
    /\ t # ss.guided_answer[idx]
    /\ ss' = [ss EXCEPT !.guided_answer[idx] = t]
    /\ Fired("type_answer") /\ accepted' = TRUE
    /\ shown' = {} /\ ret' = Rerun
    /\ BetweenRuns
    /\ LogUnchanged

TypeEditFeedback(t) ==
    /\ GuidedActive /\ Step = "editing"
    /\ ss.guided_edit_feedback # Absent
    /\ t # ss.guided_edit_feedback
    /\ ss' = [ss EXCEPT !.guided_edit_feedback = t]
    /\ Fired("type_feedback") /\ accepted' = TRUE
    /\ shown' = {} /\ ret' = Rerun
    /\ BetweenRuns
    /\ LogUnchanged

(* ------------- guided_requirement_workflow, stage "input" ------------- *)

\* mutant: the earlier document and its confirmation are kept
GenerateQuestions_KeepsDocument ==
    /\ GuidedActive /\ Step = "input"
    /\ Fired("generate_questions")
    /\ LET initial_text == Session.guided_initial_requirement IN
       IF Strip(initial_text) = <<>>
       THEN /\ ss' = Session
            /\ accepted' = FALSE
            /\ shown' = {"warning_empty_requirement"} \cup Locked(Session)
            /\ ret' = Return(Session.confirmed_requirement_text)
       ELSE /\ ss' = clear_guided_answer_inputs(
                      [Session EXCEPT !.initial_requirement = Strip(initial_text),
                                 !.questions_generating = TRUE,
                                 !.requirement_analysis_step = "questions",
                                 !.generated_questions = <<>>,
                                 !.user_answers = EmptyMap,
                                 !.requirements_generating = FALSE,
                                 !.requirements_confirmed = FALSE,
                                 !.requirements_editing = FALSE,
                                 !.edit_feedback = <<>>])
            /\ accepted' = TRUE
            /\ shown' = {}
            /\ ret' = Rerun
    /\ WorkflowRun({})
    /\ LogUnchanged

GenerateQuestions ==
    /\ GuidedActive /\ Step = "input"
    /\ Fired("generate_questions")
    /\ LET initial_text == Session.guided_initial_requirement IN
       IF Strip(initial_text) = <<>>
       THEN /\ ss' = Session
            /\ accepted' = FALSE
            /\ shown' = {"warning_empty_requirement"} \cup Locked(Session)
            /\ ret' = Return(Session.confirmed_requirement_text)
       ELSE /\ ss' = clear_guided_answer_inputs(
                      [Session EXCEPT !.initial_requirement = Strip(initial_text),
                                 !.questions_generating = TRUE,
                                 !.requirement_analysis_step = "questions",
                                 !.generated_questions = <<>>,
                                 !.user_answers = EmptyMap,
                                 !.detailed_requirements = <<>>,
                                 !.confirmed_requirement_text = None,
                                 !.requirements_generating = FALSE,
                                 !.requirements_confirmed = FALSE,
                                 !.requirements_editing = FALSE,
                                 !.edit_feedback = <<>>])
            /\ accepted' = TRUE
            /\ shown' = {}
            /\ ret' = Rerun
    /\ WorkflowRun({})
    /\ LogUnchanged

\* mutant: the document is stored without strip()
SkipToSpec_NoStrip ==
    /\ GuidedActive /\ Step = "input"
    /\ Fired("skip_to_spec")
    /\ LET initial_text == Session.guided_initial_requirement
           final_doc == initial_text IN
       IF Strip(initial_text) = <<>>
       THEN /\ ss' = Session
            /\ accepted' = FALSE
            /\ shown' = {"warning_empty_requirement"} \cup Locked(Session)
       ELSE /\ ss' = [Session EXCEPT !.initial_requirement = final_doc,
                                !.confirmed_requirement_text = final_doc,
                                !.requirements_confirmed = TRUE]
            /\ accepted' = TRUE
            /\ shown' = {"success_description_locked"} \cup Locked(Session)
    /\ ret' = Return(Session.confirmed_requirement_text)
    /\ WorkflowRun({})
    /\ LogUnchanged

SkipToSpec ==
    /\ GuidedActive /\ Step = "input"
    /\ Fired("skip_to_spec")
    /\ LET initial_text == Session.guided_initial_requirement
           final_doc == Strip(initial_text) IN
       IF Strip(initial_text) = <<>>
       THEN /\ ss' = Session
            /\ accepted' = FALSE
            /\ shown' = {"warning_empty_requirement"} \cup Locked(Session)
       ELSE /\ ss' = [Session EXCEPT !.initial_requirement = final_doc,
                                !.confirmed_requirement_text = final_doc,
                                !.requirements_confirmed = TRUE]
            /\ accepted' = TRUE
            /\ shown' = {"success_description_locked"} \cup Locked(Session)
    /\ ret' = Return(Session.confirmed_requirement_text)
    /\ WorkflowRun({})
    /\ LogUnchanged

(* ----------- guided_requirement_workflow, stage "questions" ----------- *)

GenerateDocument ==
    /\ GuidedActive /\ Step = "questions"
    /\ Fired("generate_doc")
    /\ LET s0 == RenderAnswerInputs(Session) IN
       IF Button(TRUE, s0.generated_questions = <<>>)
       THEN /\ ss' = [s0 EXCEPT !.user_answers = AnswersPayload(s0),
                                !.requirements_generating = TRUE,
                                !.requirement_analysis_step = "summary",
                                !.detailed_requirements = <<>>,
                                !.confirmed_requirement_text = None,
                                !.requirements_confirmed = FALSE]
            /\ accepted' = TRUE
            /\ shown' = StageMessages(Session)
            /\ ret' = Rerun
       ELSE /\ ss' = s0
            /\ accepted' = FALSE
            /\ shown' = StageMessages(Session) \cup Locked(Session)
            /\ ret' = Return(Session.confirmed_requirement_text)
    /\ WorkflowRun({})
    /\ LogUnchanged

GenerateDocumentWithoutAnswers ==
    /\ GuidedActive /\ Step = "questions"
    /\ Fired("generate_doc_without_answers")
    /\ LET s0 == RenderAnswerInputs(Session) IN
       IF Button(TRUE, s0.generated_questions = <<>>)
       THEN /\ ss' = [s0 EXCEPT !.user_answers = EmptyMap,
                                !.requirements_generating = TRUE,
                                !.requirement_analysis_step = "summary",
                                !.detailed_requirements = <<>>,
                                !.confirmed_requirement_text = None,
                                !.requirements_confirmed = FALSE]
            /\ accepted' = TRUE
            /\ shown' = StageMessages(Session)
            /\ ret' = Rerun
       ELSE /\ ss' = s0
            /\ accepted' = FALSE
            /\ shown' = StageMessages(Session) \cup Locked(Session)
            /\ ret' = Return(Session.confirmed_requirement_text)
    /\ WorkflowRun({})
    /\ LogUnchanged

\* mutant: going back only changes the stage
BackToInput_KeepsFlags ==
    /\ GuidedActive /\ Step = "questions"
    /\ Fired("back")
    /\ ss' = [RenderAnswerInputs(Session) EXCEPT !.requirement_analysis_step = "input"]
    /\ accepted' = TRUE
    /\ shown' = StageMessages(Session)
    /\ ret' = Rerun
    /\ WorkflowRun({})
    /\ LogUnchanged

BackToInput ==
    /\ GuidedActive /\ Step = "questions"
    /\ Fired("back")
    /\ ss' = reset_guided_workflow_state(RenderAnswerInputs(Session), TRUE)
    /\ accepted' = TRUE
    /\ shown' = StageMessages(Session)
    /\ ret' = Rerun
    /\ WorkflowRun(ResetKeys)
    /\ LogUnchanged

(* ------------ guided_requirement_workflow, stage "summary" ------------ *)

\* mutant: the document is stored without the confirmed flag
Confirm_NoFlag ==
    /\ GuidedActive /\ Step = "summary"
    /\ Fired("confirm")
    /\ LET summary == Summary(Session) IN
       IF Button(TRUE, summary = <<>>)
       THEN /\ ss' = [Session EXCEPT !.confirmed_requirement_text = summary]
            /\ accepted' = TRUE
            /\ shown' = StageMessages(Session) \cup {"success_confirmed"} \cup Locked(Session)
       ELSE /\ ss' = Session
            /\ accepted' = FALSE
            /\ shown' = StageMessages(Session) \cup Locked(Session)
    /\ ret' = Return(Session.confirmed_requirement_text)
    /\ WorkflowRun({})
    /\ LogUnchanged

\* mutant: the call returns the document it has just confirmed
Confirm_ReturnsNewDocument ==
    /\ GuidedActive /\ Step = "summary"
    /\ Fired("confirm")
    /\ LET summary == Summary(Session)
           final_doc == IF summary # <<>> THEN summary ELSE Session.initial_requirement IN
       IF Button(TRUE, summary = <<>>)
       THEN IF Strip(final_doc) # <<>>
            THEN /\ ss' = [Session EXCEPT !.confirmed_requirement_text = Strip(final_doc),
                                     !.requirements_confirmed = TRUE]
                 /\ accepted' = TRUE
                 /\ shown' = StageMessages(Session) \cup {"success_confirmed"} \cup Locked(Session)
            ELSE /\ ss' = Session
                 /\ accepted' = FALSE
                 /\ shown' = StageMessages(Session) \cup {"warning_no_document"} \cup Locked(Session)
       ELSE /\ ss' = Session
            /\ accepted' = FALSE
            /\ shown' = StageMessages(Session) \cup Locked(Session)
    /\ ret' = Return(ss'.confirmed_requirement_text)
    /\ WorkflowRun({})
    /\ LogUnchanged

Confirm ==
    /\ GuidedActive /\ Step = "summary"
    /\ Fired("confirm")
    /\ LET summary == Summary(Session)
           final_doc == IF summary # <<>> THEN summary ELSE Session.initial_requirement IN
       IF Button(TRUE, summary = <<>>)
       THEN IF Strip(final_doc) # <<>>
            THEN /\ ss' = [Session EXCEPT !.confirmed_requirement_text = Strip(final_doc),
                                     !.requirements_confirmed = TRUE]
                 /\ accepted' = TRUE
                 /\ shown' = StageMessages(Session) \cup {"success_confirmed"} \cup Locked(Session)
            ELSE /\ ss' = Session
                 /\ accepted' = FALSE
                 /\ shown' = StageMessages(Session) \cup {"warning_no_document"} \cup Locked(Session)
       ELSE /\ ss' = Session
            /\ accepted' = FALSE
            /\ shown' = StageMessages(Session) \cup Locked(Session)
    /\ ret' = Return(Session.confirmed_requirement_text)
    /\ WorkflowRun({})
    /\ LogUnchanged

\* mutant: the edit request leads back to the input stage
RequestEdit_WrongStage ==
    /\ GuidedActive /\ Step = "summary"
    /\ Fired("request_edit")
    /\ IF Button(TRUE, Summary(Session) = <<>>)
       THEN /\ ss' = [Session EXCEPT !.requirement_analysis_step = "input",
                                !.guided_edit_feedback = <<>>]
            /\ accepted' = TRUE
       ELSE /\ ss' = Session
            /\ accepted' = FALSE
    /\ shown' = StageMessages(Session) \cup Locked(Session)
    /\ ret' = Return(Session.confirmed_requirement_text)
    /\ WorkflowRun(IF accepted' THEN {"guided_edit_feedback"} ELSE {})
    /\ LogUnchanged

RequestEdit ==
    /\ GuidedActive /\ Step = "summary"
    /\ Fired("request_edit")
    /\ IF Button(TRUE, Summary(Session) = <<>>)
       THEN /\ ss' = [Session EXCEPT !.requirement_analysis_step = "editing",
                                !.guided_edit_feedback = <<>>]
            /\ accepted' = TRUE
       ELSE /\ ss' = Session
            /\ accepted' = FALSE
    /\ shown' = StageMessages(Session) \cup Locked(Session)
    /\ ret' = Return(Session.confirmed_requirement_text)
    /\ WorkflowRun(IF accepted' THEN {"guided_edit_feedback"} ELSE {})
    /\ LogUnchanged

\* mutant: the restart only goes back to the input stage
Restart_KeepsConfirmation ==
    /\ GuidedActive /\ Step = "summary"
    /\ Fired("restart")
    /\ ss' = [Session EXCEPT !.requirement_analysis_step = "input"]
    /\ accepted' = TRUE
    /\ shown' = StageMessages(Session)
    /\ ret' = Rerun
    /\ WorkflowRun({})
    /\ LogUnchanged

Restart ==
    /\ GuidedActive /\ Step = "summary"
    /\ Fired("restart")
    /\ ss' = reset_guided_workflow_state(Session, TRUE)
    /\ accepted' = TRUE
    /\ shown' = StageMessages(Session)
    /\ ret' = Rerun
    /\ WorkflowRun(ResetKeys)
    /\ LogUnchanged

(* ------------ guided_requirement_workflow, stage "editing" ------------ *)

SubmitChange ==
    /\ GuidedActive /\ Step = "editing"
    /\ Fired("submit_change")
    /\ LET feedback_value == Session.guided_edit_feedback IN
       IF Strip(feedback_value) = <<>>
       THEN /\ ss' = Session
            /\ accepted' = FALSE
            /\ shown' = {"warning_empty_feedback"} \cup Locked(Session)
                        \cup (IF Session.requirements_editing THEN {"info_updating"} ELSE {})
       ELSE /\ ss' = [Session EXCEPT !.edit_feedback = Strip(feedback_value),
                                !.requirements_editing = TRUE]
            /\ accepted' = TRUE
            /\ shown' = {"info_updating_from_feedback", "info_updating"} \cup Locked(Session)
    /\ ret' = Return(Session.confirmed_requirement_text)
    /\ WorkflowRun({})
    /\ LogUnchanged

\* the stage is assigned; the assignment to guided_edit_feedback, the key of
\* the text area this call has created, raises StreamlitAPIException, so the
\* field keeps its text and the call displays and returns nothing more
BackToSummary ==
    /\ GuidedActive /\ Step = "editing"
    /\ Fired("back_to_summary")
    /\ ss' = [Session EXCEPT !.requirement_analysis_step = "summary"]
    /\ accepted' = TRUE
    /\ shown' = {}
    /\ ret' = Raised
    /\ WorkflowRun({})
    /\ LogUnchanged

(* -------- guided_requirement_workflow called with no button --------- *)

Render ==
    /\ GuidedActive
    /\ Fired("render")
    /\ accepted' = TRUE
    /\ ss' = IF Step = "questions" THEN RenderAnswerInputs(Session) ELSE Session
    /\ shown' = StageMessages(Session) \cup Locked(Session)
                \cup (IF Step = "editing" /\ Session.requirements_editing
                      THEN {"info_updating"} ELSE {})
    /\ ret' = Return(Session.confirmed_requirement_text)
    /\ WorkflowRun({})
    /\ LogUnchanged

(* ------------------- Streamlit's widget clean-up -------------------- *)

\* a key is stale when Streamlit knows it as the key of a text area and the
\* script run has neither created that text area nor assigned the key
StaleKeys == widgets.known \ widgets.live

\* the end of the script run of a guided_requirement_workflow call: the stale
\* keys leave st.session_state; whether a run that st.rerun() has ended is
\* cleaned up depends on the Streamlit release
WidgetCleanup ==
    /\ fired \in WorkflowCalls /\ ret.kind \in {"return", "rerun"}
    /\ ss' = [ss EXCEPT !.guided_initial_requirement =
                            IF "guided_initial_requirement" \in StaleKeys
                            THEN Absent ELSE @,
                        !.guided_edit_feedback =
                            IF "guided_edit_feedback" \in StaleKeys
                            THEN Absent ELSE @,
                        !.guided_answer =
                            IF "guided_answer" \in StaleKeys THEN EmptyMap ELSE @]
    /\ widgets' = [widgets EXCEPT !.live = {}]
    /\ Fired("widget_cleanup") /\ accepted' = TRUE
    /\ shown' = {} /\ ret' = Rerun
    /\ LogUnchanged

(* ----------------- generation collaborator write-back ----------------- *)

ApplyGeneratedQuestions(qs) ==
    /\ ss.questions_generating
    /\ ss' = [ss EXCEPT !.generated_questions = qs, !.questions_generating = FALSE]
    /\ Fired("apply_questions") /\ accepted' = TRUE
    /\ shown' = {} /\ ret' = Rerun
    /\ BetweenRuns
    /\ LogUnchanged

ApplyGeneratedDocument(doc) ==
    /\ ss.requirements_generating
    /\ ss' = [ss EXCEPT !.detailed_requirements = doc, !.requirements_generating = FALSE]
    /\ Fired("apply_document") /\ accepted' = TRUE
    /\ shown' = {} /\ ret' = Rerun
    /\ BetweenRuns
    /\ LogUnchanged

ApplyEditedDocument(doc) ==
    /\ ss.requirements_editing
    /\ ss' = [ss EXCEPT !.detailed_requirements = doc, !.requirements_editing = FALSE]
    /\ Fired("apply_edit") /\ accepted' = TRUE
    /\ shown' = {} /\ ret' = Rerun
    /\ BetweenRuns
    /\ LogUnchanged

(* ----------------------- render_log_viewer: tail ---------------------- *)

\* s[-k:]
LastItems(s, k) ==
    IF k = 0 \/ k >= Len(s) THEN s ELSE SubSeq(s, Len(s) - k + 1, Len(s))

\* line.strip()
StripLine(line) == [line EXCEPT !.pad = 0]

\* not line
IsBlank(line) == line.len + line.pad = 0

\* level.upper()
Upper(level) ==
    CASE level = "task_success" -> "TASK_SUCCESS"
      [] OTHER -> level

\* "SUCCESS" in text
ContainsSuccess(text) == text \in {"SUCCESS", "TASK_SUCCESS"}

LevelColor(level) ==
    IF level = "ERROR" THEN "#ff4444"
    ELSE IF level = "WARNING" THEN "#ffaa00"
    ELSE IF ContainsSuccess(Upper(level)) THEN "#00ff88"
    ELSE "#00d4ff"

\* text[:DisplayLimit]
Cut(len) == IF len > DisplayLimit THEN DisplayLimit ELSE len

\* the try block raises something other than json.JSONDecodeError: event.get
\* on a JSON value that is not an object, level.upper() on a level that is
\* not a string
ParseRaises(line) ==
    \/ line.kind = "value"
    \/ line.kind = "object" /\ ~line.strings

\* the part appended to log_html_parts for a stripped line that does not raise
HtmlPart(line) ==
    IF line.kind = "object"
    THEN [level_color |-> LevelColor(line.level), len |-> Cut(line.len)]
    ELSE [level_color |-> "raw", len |-> Cut(line.len)]

\* the for loop over tail_lines
RECURSIVE LogHtmlParts(_)
LogHtmlParts(tail_lines) ==
    IF tail_lines = <<>> THEN <<>>
    ELSE LET line == StripLine(Head(tail_lines))
         IN IF IsBlank(line) THEN LogHtmlParts(Tail(tail_lines))
            ELSE <<HtmlPart(line)>> \o LogHtmlParts(Tail(tail_lines))

\* the loop is left by an exception
LoopRaises(tail_lines) ==
    \E i \in DOMAIN tail_lines :
        /\ ~IsBlank(StripLine(tail_lines[i]))
        /\ ParseRaises(StripLine(tail_lines[i]))

SessionUnchanged ==
    UNCHANGED <<ss, shown, ret, widgets, log_files, logs_dir_exists, glob_order,
                log_outcome, log_displayed, log_error, log_calls, viewer>>

\* read_text failed
ReadError == [ok |-> FALSE, content |-> <<>>]

\* read_text returned the text whose lines are content
ReadOf(content) == [ok |-> TRUE, content |-> content]

\* what a call's read of the selected file may give
Reads == {ReadError} \cup {ReadOf(c) : c \in Contents}

\* the reads of the specifications about the selection: a failure, one text
\* line, one line that is JSON but no object
SelectionReads ==
    {ReadError} \cup {ReadOf(c) : c \in {<<LinePool[3]>>, <<LinePool[5]>>}}

\* a call that has not read a file
NoTail(max_lines) ==
    [content |-> <<>>, max_lines |-> max_lines,
     outcome |-> "not_called", records |-> <<>>]

\* from the split of the content to the markdown call
TailOf(lines, max_lines) ==
    LET tail_lines == LastItems(lines, max_lines)
        result(outcome, records) ==
            [content |-> lines, max_lines |-> max_lines,
             outcome |-> outcome, records |-> records]
    IN IF tail_lines = <<>> THEN result("empty_file", <<>>)
       ELSE IF LoopRaises(tail_lines) THEN result("raised", <<>>)
       ELSE result("rendered", LogHtmlParts(tail_lines))

(* -------------------------- render_log_viewer ------------------------- *)

\* whether a call ended with no directory, no files, waiting or a selected file
SelectionOf(outcome) == IF outcome \in {"tail", "read_error"} THEN "selected" ELSE outcome

\* what no step of render_log_viewer changes
ViewerFrame ==
    /\ Fired("render_log_viewer")
    /\ accepted' = TRUE
    /\ UNCHANGED <<shown, ret, widgets, log_files, logs_dir_exists, glob_order>>
    /\ UNCHANGED <<sidebar_events, feed>>

\* the call goes on with its next file-system call; of the call before it the
\* history keeps the kind of outcome, nothing of what it displayed
ViewerGoesOn(next_viewer, next_tail) ==
    /\ viewer' = next_viewer
    /\ tail' = next_tail
    /\ log_outcome' = SelectionOf(log_outcome)
    /\ log_displayed' = "None"
    /\ log_error' = "None"
    /\ log_calls' = IF log_calls < 1 THEN log_calls ELSE 1

\* the call ends: by a return, or by an exception ("raised")
ViewerEnds(outcome, displayed, error, next_tail) ==
    /\ viewer' = IdleViewer
    /\ log_outcome' = outcome
    /\ log_displayed' = displayed
    /\ log_error' = error
    /\ log_calls' = IF log_calls < 2 THEN log_calls + 1 ELSE 2
    /\ tail' = next_tail

\* the call begins: the heading and logs_dir.exists()
RenderLogViewer(max_lines) ==
    /\ viewer.pc = "idle"
    /\ ViewerFrame
    /\ ss' = ss
    /\ IF ~logs_dir_exists
       THEN ViewerEnds("no_directory", "None", "None", NoTail(max_lines))
       ELSE ViewerGoesOn([IdleViewer EXCEPT !.pc = "glob"], NoTail(max_lines))

\* logs_dir.glob("*.jsonl"): the directory is scanned once, when the list
\* comprehension asks for the first path; a directory without entries gives
\* an empty log_files
LogViewerGlob ==
    /\ viewer.pc = "glob"
    /\ ViewerFrame
    /\ ss' = ss
    /\ IF glob_order = <<>>
       THEN ViewerEnds("no_files", "None", "None", tail)
       ELSE ViewerGoesOn([viewer EXCEPT !.pc = "is_file", !.entries = glob_order], tail)

\* p.is_file() of the next scanned entry: a file that is no longer there is
\* left out without an exception; after the last entry log_files is complete
LogViewerIsFile ==
    /\ viewer.pc = "is_file"
    /\ ViewerFrame
    /\ ss' = ss
    /\ LET p == Head(viewer.entries)
           files == IF p \in DOMAIN log_files THEN Append(viewer.files, p)
                    ELSE viewer.files
       IN IF Len(viewer.entries) > 1
          THEN ViewerGoesOn([viewer EXCEPT !.entries = Tail(@), !.files = files], tail)
          ELSE IF files = <<>>
          THEN ViewerEnds("no_files", "None", "None", tail)
          ELSE ViewerGoesOn([viewer EXCEPT !.pc = "sort", !.entries = <<>>,
                                           !.files = files], tail)

\* the key of the sort: p.stat().st_mtime of the next listed file; after the
\* last one the list is sorted and start_ts is read
LogViewerSortKey ==
    /\ viewer.pc = "sort"
    /\ ViewerFrame
    /\ ss' = ss
    /\ LET p == viewer.files[Len(viewer.keys) + 1]
       IN IF p \notin DOMAIN log_files
          THEN ViewerEnds("raised", "None", "None", tail)
          ELSE LET keys == Append(viewer.keys, log_files[p])
               IN IF Len(keys) < Len(viewer.files)
                  THEN ViewerGoesOn([viewer EXCEPT !.keys = keys], tail)
                  ELSE ViewerGoesOn(
                         [viewer EXCEPT !.pc = IF ss.workflow_start_time # NoStart
                                               THEN "loop" ELSE "prev",
                                        !.files = SortedLogFiles(viewer.files, keys),
                                        !.keys = <<>>, !.idx = 1], tail)

\* mutant: waiting for a new log forgets the remembered file
LogViewerCandidate_ForgetsOnWaiting ==
    /\ viewer.pc = "loop"
    /\ ViewerFrame
    /\ LET candidate == viewer.files[viewer.idx]
       IN IF candidate \notin DOMAIN log_files
          THEN ss' = ss /\ ViewerEnds("raised", "None", "None", tail)
          ELSE IF Eligible(log_files[candidate], ss.workflow_start_time)
          THEN /\ ss' = ss
               /\ ViewerGoesOn([viewer EXCEPT !.pc = "read", !.files = <<candidate>>,
                                              !.idx = 1], tail)
          ELSE IF viewer.idx < Len(viewer.files)
          THEN ss' = ss /\ ViewerGoesOn([viewer EXCEPT !.idx = @ + 1], tail)
          ELSE /\ ss' = [ss EXCEPT !.active_log_file = "None"]
               /\ ViewerEnds("waiting", "None", "None", tail)

\* one iteration of the loop over log_files: candidate.stat().st_mtime and the
\* test against start_ts - tolerance; after the last one the waiting caption
LogViewerCandidate ==
    /\ viewer.pc = "loop"
    /\ ViewerFrame
    /\ ss' = ss
    /\ LET candidate == viewer.files[viewer.idx]
       IN IF candidate \notin DOMAIN log_files
          THEN ViewerEnds("raised", "None", "None", tail)
          ELSE IF Eligible(log_files[candidate], ss.workflow_start_time)
          THEN ViewerGoesOn([viewer EXCEPT !.pc = "read", !.files = <<candidate>>,
                                          !.idx = 1], tail)
          ELSE IF viewer.idx < Len(viewer.files)
          THEN ViewerGoesOn([viewer EXCEPT !.idx = @ + 1], tail)
          ELSE ViewerEnds("waiting", "None", "None", tail)

\* without a start time: prev_path.exists() and the choice of selected_path
LogViewerPrev ==
    /\ viewer.pc = "prev"
    /\ ViewerFrame
    /\ ss' = ss
    /\ LET prev == ss.active_log_file
           selected_path == PrevOrNewest(viewer.files, prev,
                                         prev \in DOMAIN log_files)
       IN ViewerGoesOn([viewer EXCEPT !.pc = "read", !.files = <<selected_path>>,
                                     !.idx = 1], tail)

\* the assignment of active_log_file, read_text and the tail; read is what
\* read_text gives, a failure if the file is no longer there
LogViewerRead(read) ==
    /\ viewer.pc = "read"
    /\ ViewerFrame
    /\ LET selected_path == viewer.files[1]
       IN /\ selected_path \in DOMAIN log_files \/ ~read.ok
          /\ ss' = [ss EXCEPT !.active_log_file = selected_path]
          /\ IF read.ok
             THEN ViewerEnds("tail", selected_path, "None",
                             TailOf(read.content, tail.max_lines))
             ELSE ViewerEnds("read_error", "None", selected_path, tail)

(* ----------------------- sidebar_control_panel ------------------------ *)

SidebarControlPanel ==
    IF ss.workflow_start_time # NoStart
    THEN RenderLogViewer(DefaultMaxLines)
    ELSE /\ viewer.pc = "idle"
         /\ Fired("sidebar_idle")
         /\ accepted' = TRUE
         /\ UNCHANGED <<ss, shown, ret, widgets, log_files, logs_dir_exists, glob_order,
                        log_outcome, log_displayed, log_error, log_calls>>
         /\ UNCHANGED <<viewer, tail, sidebar_events, feed>>

(* ------------- log writer and pipeline runner (external) -------------- *)

\* the log writer and the pipeline runner display nothing; a call that is
\* running goes on with what it has read. log_calls counts the calls that
\* began and ended since the files, their modification times and the start
\* time last changed: a call that is running when they change does not count
LogEnvUnchanged(did) ==
    /\ Fired("log_environment") /\ accepted' = TRUE
    /\ log_calls' = IF viewer.pc = "idle" THEN 0 ELSE -1
    /\ log_outcome' = "not_called"
    /\ log_displayed' = "None"
    /\ log_error' = "None"
    /\ tail' = IF viewer.pc = "idle" THEN IdleTail ELSE tail
    /\ viewer' = IF viewer.pc = "idle" THEN viewer
                 ELSE [viewer EXCEPT !.writer = IF did = "still" \/ @ = "writing"
                                                  THEN @ ELSE did]
    /\ UNCHANGED <<shown, ret, widgets, sidebar_events, feed>>

MakeLogsDir ==
    /\ ~logs_dir_exists
    /\ logs_dir_exists' = TRUE
    /\ UNCHANGED <<ss, log_files, glob_order>>
    /\ LogEnvUnchanged("writing")

\* the log writer creates file f or writes to it: a new file takes any place
\* in the directory's listing, a file written to keeps its place
WriteLog(f, t) ==
    /\ logs_dir_exists
    /\ IF f \in DOMAIN log_files THEN log_files[f] # t ELSE TRUE
    /\ log_files' = [g \in DOMAIN log_files \cup {f} |-> IF g = f THEN t ELSE log_files[g]]
    /\ glob_order' \in IF f \in DOMAIN log_files THEN {glob_order}
                        ELSE {order \in DirectoryListings(DOMAIN log_files') :
                                 Unlisted(order, f) = glob_order}
    /\ UNCHANGED <<ss, logs_dir_exists>>
    /\ LogEnvUnchanged("writing")

RemoveLog(f) ==
    /\ f \in DOMAIN log_files
    /\ log_files' = [g \in DOMAIN log_files \ {f} |-> log_files[g]]
    /\ glob_order' = Unlisted(glob_order, f)
    /\ UNCHANGED <<ss, logs_dir_exists>>
    /\ LogEnvUnchanged("removing")

\* the pipeline runner runs in the script's thread, between two calls
SetWorkflowStart(t) ==
    /\ viewer.pc = "idle"
    /\ t # ss.workflow_start_time
    /\ ss' = [ss EXCEPT !.workflow_start_time = t]
    /\ UNCHANGED <<log_files, logs_dir_exists, glob_order>>
    /\ LogEnvUnchanged("still")

(* ------------------------- render_sidebar_feed ------------------------ *)

\* reversed(s)
Reverse(s) == [i \in 1..Len(s) |-> s[Len(s) + 1 - i]]

\* mutant: the last events in append order
FeedRecent_OldestFirst(events, max_items) == LastItems(events, max_items)

\* recent_events
FeedRecent(events, max_items) == Reverse(LastItems(events, max_items))

\* one whole call of render_sidebar_feed; clicked is the clear button
RenderSidebarFeed(max_items, clicked) ==
    /\ feed.pc \in {"idle", "done"}
    /\ Fired(IF clicked THEN "clear_sidebar_feed" ELSE "render_sidebar_feed")
    /\ accepted' = TRUE
    /\ LET events == IF clicked THEN <<>> ELSE sidebar_events
           recent_events == IF events = <<>> THEN <<>>
                            ELSE FeedRecent(events, max_items)
       IN /\ sidebar_events' = IF clicked THEN <<>> ELSE sidebar_events
          /\ feed' = [feed EXCEPT !.pc = "done", !.max_items = max_items,
                                  !.events = events,
                                  !.recent_events = recent_events,
                                  !.cards = recent_events,
                                  !.empty_state = (events = <<>>),
                                  !.last_cleared = IF clicked THEN "now" ELSE @,
                                  !.seen = {sidebar_events}]
    /\ SessionUnchanged
    /\ UNCHANGED tail

\* the same call step by step: events = list(sidebar_events)
FeedSnapshot(max_items) ==
    /\ feed.pc \in {"idle", "done"}
    /\ Fired("feed_snapshot") /\ accepted' = TRUE
    /\ feed' = [feed EXCEPT !.pc = "snapshot", !.max_items = max_items,
                            !.events = sidebar_events, !.recent_events = <<>>,
                            !.cards = <<>>, !.empty_state = FALSE,
                            !.seen = {sidebar_events}]
    /\ SessionUnchanged
    /\ UNCHANGED <<tail, sidebar_events>>

\* the clear button, the empty state and the slice
FeedButton(clicked) ==
    /\ feed.pc = "snapshot"
    /\ Fired("feed_button") /\ accepted' = TRUE
    /\ LET events == IF clicked THEN <<>> ELSE feed.events
       IN /\ sidebar_events' = IF clicked THEN <<>> ELSE sidebar_events
          /\ feed' = [feed EXCEPT
                        !.pc = IF events = <<>> THEN "done" ELSE "showing",
                        !.events = events,
                        !.recent_events = IF events = <<>> THEN <<>>
                                          ELSE FeedRecent(events, feed.max_items),
                        !.empty_state = (events = <<>>),
                        !.last_cleared = IF clicked THEN "now" ELSE @,
                        !.seen = IF clicked THEN @ \cup {<<>>} ELSE @]
    /\ SessionUnchanged
    /\ UNCHANGED tail

\* mutant: the card is read from the store instead of recent_events
FeedShowCard_Live ==
    /\ feed.pc = "showing"
    /\ Fired("feed_show_card") /\ accepted' = TRUE
    /\ LET i == Len(feed.cards) + 1
           n == Len(sidebar_events)
           card == IF i <= n THEN sidebar_events[n + 1 - i] ELSE feed.recent_events[i]
       IN feed' = [feed EXCEPT
                     !.cards = Append(@, card),
                     !.pc = IF i = Len(feed.recent_events) THEN "done" ELSE "showing"]
    /\ SessionUnchanged
    /\ UNCHANGED <<tail, sidebar_events>>

\* one iteration of the loop over recent_events
FeedShowCard ==
    /\ feed.pc = "showing"
    /\ Fired("feed_show_card") /\ accepted' = TRUE
    /\ LET i == Len(feed.cards) + 1
       IN feed' = [feed EXCEPT
                     !.cards = Append(@, feed.recent_events[i]),
                     !.pc = IF i = Len(feed.recent_events) THEN "done" ELSE "showing"]
    /\ SessionUnchanged
    /\ UNCHANGED <<tail, sidebar_events>>

(* ------------------------ render_system_monitor ---------------------- *)

\* events[-1] if events else None
LatestEvent(events) == IF events # <<>> THEN ToString(events[Len(events)]) ELSE "None"

\* mutant: the latest event is taken out of the store
RenderSystemMonitor_PopsLatest ==
    /\ Fired("render_system_monitor") /\ accepted' = TRUE
    /\ feed' = [feed EXCEPT !.latest_event = LatestEvent(sidebar_events)]
    /\ sidebar_events' = IF sidebar_events = <<>> THEN <<>>
                         ELSE SubSeq(sidebar_events, 1, Len(sidebar_events) - 1)
    /\ SessionUnchanged
    /\ UNCHANGED tail

\* the monitor card shows the stage and message of the latest event
RenderSystemMonitor ==
    /\ Fired("render_system_monitor") /\ accepted' = TRUE
    /\ feed' = [feed EXCEPT !.latest_event = LatestEvent(sidebar_events)]
    /\ SessionUnchanged
    /\ UNCHANGED <<tail, sidebar_events>>

(* --------------------------- pipeline runner -------------------------- *)

\* the pipeline appends its next event and keeps the newest StoreCap events
AppendEvent ==
    /\ feed.appended < MaxEvents
    /\ Fired("append_event") /\ accepted' = TRUE
    /\ sidebar_events' = LastItems(Append(sidebar_events, feed.appended + 1), StoreCap)
    /\ feed' = [feed EXCEPT !.appended = @ + 1,
                            !.seen = IF feed.pc \in {"snapshot", "showing"}
                                     THEN @ \cup {sidebar_events'} ELSE @]
    /\ SessionUnchanged
    /\ UNCHANGED tail

(* --------------------------- specification ---------------------------- *)

Next ==
    \/ \E m \in {"direct", "guided"} : SelectMode(m)
    \/ \E t \in Texts : TypeInitialRequirement(t)
    \/ \E idx \in 0..(MaxQuestions - 1), t \in AnswerTexts : TypeAnswer(idx, t)
    \/ \E t \in FeedbackTexts : TypeEditFeedback(t)
    \/ GenerateQuestions
    \/ SkipToSpec
    \/ GenerateDocument
    \/ GenerateDocumentWithoutAnswers
    \/ BackToInput
    \/ Confirm
    \/ RequestEdit
    \/ Restart
    \/ SubmitChange
    \/ BackToSummary
    \/ Render
    \/ WidgetCleanup
    \/ \E qs \in QuestionLists : ApplyGeneratedQuestions(qs)
    \/ \E doc \in Texts : ApplyGeneratedDocument(doc)
    \/ \E doc \in Texts : ApplyEditedDocument(doc)

Spec == Init /\ [][Next]_vars

\* the steps of a render_log_viewer call that has begun
LogViewerSteps ==
    \/ LogViewerGlob
    \/ LogViewerIsFile
    \/ LogViewerSortKey
    \/ LogViewerCandidate
    \/ LogViewerPrev
    \/ \E read \in SelectionReads : LogViewerRead(read)

\* the log viewer and the log writer, which acts between any two file-system
\* calls of the viewer; the pipeline runner sets the start time between calls
NextLog ==
    \/ RenderLogViewer(DefaultMaxLines)
    \/ SidebarControlPanel
    \/ LogViewerSteps
    \/ MakeLogsDir
    \/ \E f \in LogFileNames, t \in Mtimes : WriteLog(f, t)
    \/ \E f \in LogFileNames : RemoveLog(f)
    \/ \E t \in StartTimes \cup {NoStart} : SetWorkflowStart(t)

SpecLog == Init /\ [][NextLog]_vars

\* the log viewer together with the workflow resets of the mode selector
NextSession ==
    \/ NextLog
    \/ \E m \in {"direct", "guided"} : SelectMode(m)

SpecSession == Init /\ [][NextSession]_vars

\* one log file read with every content and every max_lines of the bounds
NextTail ==
    \/ \E max_lines \in 1..MaxTailLines : RenderLogViewer(max_lines)
    \/ LogViewerGlob
    \/ LogViewerIsFile
    \/ LogViewerSortKey
    \/ LogViewerPrev
    \/ \E read \in Reads : LogViewerRead(read)
    \/ MakeLogsDir
    \/ WriteLog(LogFilePool[1], MaxMtime)

SpecTail == Init /\ [][NextTail]_vars

\* the feed rendered in one piece between the appends of the pipeline
NextFeed ==
    \/ \E max_items \in 1..MaxItems, clicked \in BOOLEAN :
          RenderSidebarFeed(max_items, clicked)
    \/ AppendEvent

SpecFeed == Init /\ [][NextFeed]_vars

\* the feed rendered step by step while the pipeline appends
NextFeedConcurrent ==
    \/ \E max_items \in 1..MaxItems : FeedSnapshot(max_items)
    \/ \E clicked \in BOOLEAN : FeedButton(clicked)
    \/ FeedShowCard
    \/ AppendEvent

SpecFeedConcurrent == Init /\ [][NextFeedConcurrent]_vars

\* the presentation operations of the sidebar next to the pipeline's appends
NextPresentation ==
    \/ NextFeed
    \/ RenderSystemMonitor
    \/ RenderLogViewer(DefaultMaxLines)
    \/ LogViewerGlob
    \/ LogViewerIsFile
    \/ LogViewerSortKey
    \/ LogViewerPrev
    \/ \E read \in SelectionReads : LogViewerRead(read)
    \/ MakeLogsDir
    \/ WriteLog(LogFilePool[1], MaxMtime)

SpecPresentation == Init /\ [][NextPresentation]_vars

(* ------------------------- transition table --------------------------- *)

Stages == {"input", "questions", "summary", "editing"}

Triggers == {"generate_questions", "skip_to_spec", "generate_doc",
             "generate_doc_without_answers", "back", "confirm", "request_edit",
             "restart", "submit_change", "back_to_summary"}

\* the resets: 'back', 'restart', and the mode selector's direct call
ResetTriggers == {"back", "restart", "select_direct"}

TableFrom(trigger) ==
    CASE trigger \in {"generate_questions", "skip_to_spec"} -> "input"
      [] trigger \in {"generate_doc", "generate_doc_without_answers", "back"} -> "questions"
      [] trigger \in {"confirm", "request_edit", "restart"} -> "summary"
      [] trigger \in {"submit_change", "back_to_summary"} -> "editing"

TableTo(trigger) ==
    CASE trigger = "generate_questions" -> "questions"
      [] trigger = "skip_to_spec" -> "input"
      [] trigger \in {"generate_doc", "generate_doc_without_answers"} -> "summary"
      [] trigger = "back" -> "input"
      [] trigger = "confirm" -> "summary"
      [] trigger = "request_edit" -> "editing"
      [] trigger = "restart" -> "input"
      [] trigger = "submit_change" -> "editing"
      [] trigger = "back_to_summary" -> "summary"

\* the table's guard, on the session the call works on
TableGuard(trigger) ==
    CASE trigger \in {"generate_questions", "skip_to_spec"} ->
           Strip(Session.guided_initial_requirement) # <<>>
      [] trigger \in {"generate_doc", "generate_doc_without_answers"} ->
           ss.generated_questions # <<>>
      [] trigger \in {"confirm", "request_edit"} -> Strip(ss.detailed_requirements) # <<>>
      [] trigger = "submit_change" -> Strip(Session.guided_edit_feedback) # <<>>
      [] OTHER -> TRUE

ConfirmedDoc == ss.confirmed_requirement_text

(* ------------------------------ claims -------------------------------- *)

\* C1: every trigger whose guard holds is fired in the stage the transition
\* table names and leaves the session in the stage the table gives for it, and
\* the stage is always one of input, questions, summary, editing.
C1_StageFollowsTable ==
    /\ [](Step \in Stages)
    /\ [][(fired' \in Triggers /\ TableGuard(fired'))
            => (Step = TableFrom(fired') /\ Step' = TableTo(fired'))]_vars

C1_Witness ==
    /\ fired = "back_to_summary" /\ Step = "summary"
    /\ Strip(ss.detailed_requirements) # <<>>
    /\ ss.user_answers # EmptyMap

ValidationWarnings == {"warning_empty_requirement", "warning_empty_feedback",
                       "warning_no_document"}

\* C2: a guarded trigger fired with its required field empty shows a validation
\* message and changes no session field; the text-area key that every call
\* gives back to a session that has lost it (718-723) is not counted as a
\* change.
C2_RejectedWithMessage ==
    [][(fired' \in Triggers /\ ~TableGuard(fired'))
         => (ss' = Session /\ shown' \cap ValidationWarnings # {})]_vars

\* C3: only a reset ('back', 'restart', reset called directly)
\* clears confirmedDocument or the confirmed flag.
C3_OnlyResetClears ==
    [][((ConfirmedDoc # None /\ ConfirmedDoc' = None)
          \/ (ss.requirements_confirmed /\ ~ss'.requirements_confirmed))
         => fired' \in ResetTriggers]_vars

\* C4: a confirmedDocument that holds a text is never replaced by a different
\* text in one step: re-firing 'confirm' or 'skip to spec' leaves it unchanged.
C4_ConfirmedDocumentImmutable ==
    [][(ConfirmedDoc # None /\ ConfirmedDoc' # None) => ConfirmedDoc' = ConfirmedDoc]_vars

\* C5: in a confirmed session no trigger other than a reset changes the stage.
C5_ConfirmedStageFrozen ==
    [][(ss.requirements_confirmed /\ fired' \notin ResetTriggers) => Step' = Step]_vars

\* C6: the confirmed flag is true exactly when confirmedDocument is set, and a
\* set confirmedDocument is never empty or whitespace-only.
C6_FlagIffDocument ==
    /\ ss.requirements_confirmed <=> ConfirmedDoc # None
    /\ ConfirmedDoc # None => Strip(ConfirmedDoc) # <<>>

C6_Witness ==
    /\ fired = "confirm" /\ accepted
    /\ ss.requirements_confirmed
    /\ ss.detailed_requirements = <<" ", "b">>

\* C7: an accepted 'skip to spec' sets confirmedDocument to the trimmed
\* initialText and an accepted 'confirm' sets it to the trimmed summaryDocument;
\* both set the confirmed flag and leave stage, questions, answers,
\* summaryDocument and the three in-flight flags unchanged.
C7_ConfirmationEffect ==
    [][/\ (fired' = "skip_to_spec" /\ Strip(Session.guided_initial_requirement) # <<>>)
            => ConfirmedDoc' = Strip(Session.guided_initial_requirement)
       /\ (fired' = "confirm" /\ Strip(ss.detailed_requirements) # <<>>)
            => ConfirmedDoc' = Strip(ss.detailed_requirements)
       /\ (fired' \in {"skip_to_spec", "confirm"} /\ TableGuard(fired'))
            => /\ ss'.requirements_confirmed
               /\ Step' = Step
               /\ ss'.generated_questions = ss.generated_questions
               /\ ss'.user_answers = ss.user_answers
               /\ ss'.detailed_requirements = ss.detailed_requirements
               /\ ss'.questions_generating = ss.questions_generating
               /\ ss'.requirements_generating = ss.requirements_generating
               /\ ss'.requirements_editing = ss.requirements_editing]_vars

C7_Witness ==
    /\ fired = "skip_to_spec" /\ accepted
    /\ ss.guided_initial_requirement = <<" ", "b">>
    /\ ConfirmedDoc = <<"b">>
    /\ Step = "input"

\* the session a reset leaves, given the initial texts it keeps
AfterReset(guided_initial, initial) ==
    [DefaultSession EXCEPT !.guided_initial_requirement = guided_initial,
                           !.initial_requirement = initial,
                           !.requirement_analysis_mode = ss'.requirement_analysis_mode,
                           !.workflow_start_time = ss.workflow_start_time,
                           !.active_log_file = ss.active_log_file]

\* C8: a reset with preserve_initial=True ('back', 'restart') keeps initialText
\* and puts every other session field at its default; a reset with
\* preserve_initial=False (the mode selector) empties initialText as well.
C8_ResetEffect ==
    [][/\ fired' \in {"back", "restart"}
            => ss' = AfterReset(Session.guided_initial_requirement, ss.initial_requirement)
       /\ fired' = "select_direct" => ss' = AfterReset(<<>>, <<>>)]_vars

C8_Witness ==
    /\ fired = "back"
    /\ ss.guided_initial_requirement = <<"b">>
    /\ ss.initial_requirement = <<"b">>
    /\ widgets.known = {"guided_initial_requirement", "guided_answer"}
    /\ ss.user_answers = EmptyMap /\ ss.guided_answer = EmptyMap

\* a reset trigger the session offers
ResetStep == SelectMode("direct") \/ Restart \/ BackToInput

\* C9: whenever confirmedDocument is set, in whatever stage, a reset trigger is
\* accepted, and a reset executed then clears confirmedDocument, the confirmed
\* flag and every other field (initialText when the reset does not preserve it).
C9_ResetAvailableAndClears ==
    /\ [](ConfirmedDoc # None => ENABLED ResetStep)
    /\ [][(ConfirmedDoc # None /\ fired' \in ResetTriggers)
            => /\ ConfirmedDoc' = None
               /\ ~ss'.requirements_confirmed
               /\ \E kept \in {TRUE, FALSE} :
                    ss' = IF kept
                          THEN AfterReset(Session.guided_initial_requirement, ss.initial_requirement)
                          ELSE AfterReset(<<>>, <<>>)]_vars

C9_Witness ==
    /\ fired = "select_direct"
    /\ prev_doc # None
    /\ ConfirmedDoc = None
    /\ ss.guided_initial_requirement = <<>>

(* --------------------------- log selection ---------------------------- *)

\* the step in which a render_log_viewer call ends
CallEnds == fired' = "render_log_viewer" /\ viewer'.pc = "idle"

\* the end of a call that found the directory and at least one file
ViewerCall == CallEnds /\ logs_dir_exists /\ DOMAIN log_files # {}

StartSet == ss.workflow_start_time # NoStart

\* the files modified at or after workflowStartTime - 10 seconds
EligibleFiles ==
    {f \in DOMAIN log_files : log_files[f] >= ss.workflow_start_time - 10}

Newest(f) == \A g \in DOMAIN log_files : log_files[f] >= log_files[g]

\* during the call that ends the log writer has created no file and written
\* to none: the files in the directory were there, with the modification time
\* they have, when the call began
NothingWritten == viewer.writer # "writing"

\* C10: with workflowStartTime set, a file is eligible exactly when its
\* modification time is >= workflowStartTime - 10: a call selects a file when
\* an eligible file is in the directory and waits only when none is, and the
\* file it records as active and displays is an eligible one. Stated for the
\* calls during which the log writer writes nothing.
C10_EligibleOnly ==
    [][(ViewerCall /\ StartSet /\ NothingWritten)
         => /\ EligibleFiles # {} => SelectionOf(log_outcome') = "selected"
            /\ log_outcome' = "waiting" => (EligibleFiles = {} /\ ss' = ss)
            /\ (SelectionOf(log_outcome') = "selected"
                  /\ ss'.active_log_file \in DOMAIN log_files)
                 => ss'.active_log_file \in EligibleFiles
            /\ log_displayed' \in {"None", ss'.active_log_file}]_vars

\* C11: with workflowStartTime set and an eligible file present, a file is
\* selected and it has the greatest modification time of all candidates.
\* Stated for the calls during which the log writer writes nothing.
C11_NewestEligibleSelected ==
    [][(ViewerCall /\ StartSet /\ NothingWritten /\ EligibleFiles # {})
         => /\ SelectionOf(log_outcome') = "selected"
            /\ ss'.active_log_file \in DOMAIN log_files
                 => Newest(ss'.active_log_file)]_vars

\* C12: every call of the selector ends in one of three outcomes, 'none',
\* 'waiting' or one selected file; a call during which the log writer keeps
\* still ends with 'none' exactly when the directory is missing or holds no
\* file, with 'waiting' exactly when files exist, workflowStartTime is set and
\* no file is eligible, and with one selected file otherwise; 'none' and
\* 'waiting' display no log line.
C12_ThreeOutcomes ==
    [][CallEnds
         => LET none == ~logs_dir_exists \/ DOMAIN log_files = {}
                waiting == ~none /\ StartSet /\ EligibleFiles = {}
            IN /\ log_outcome' \in {"no_directory", "no_files", "waiting",
                                     "tail", "read_error"}
               /\ viewer.writer = "still" =>
                    /\ (log_outcome' \in {"no_directory", "no_files"}) <=> none
                    /\ (log_outcome' = "waiting") <=> waiting
                    /\ (log_outcome' \in {"tail", "read_error"}) <=> (~none /\ ~waiting)
                    /\ (~none /\ ~waiting) => ss'.active_log_file \in DOMAIN log_files
                    /\ (none \/ waiting) => log_displayed' = "None"]_vars

\* C13: with workflowStartTime absent and a file in the directory, the selector
\* returns the remembered active log file if it still exists and otherwise a
\* most recently modified file. Stated for the calls during which the log
\* writer writes nothing.
C13_RememberedElseNewest ==
    [][(ViewerCall /\ ~StartSet /\ NothingWritten)
         => /\ SelectionOf(log_outcome') = "selected"
            /\ IF ss.active_log_file \in DOMAIN log_files
               THEN ss'.active_log_file = ss.active_log_file
               ELSE ss'.active_log_file \in DOMAIN log_files
                      => Newest(ss'.active_log_file)]_vars

\* C14: a reset of the workflow invalidates the remembered active log path and
\* the workflow start time.
C14_ResetInvalidatesLogSelection ==
    [][fired' = "select_direct"
         => (ss'.active_log_file = "None" /\ ss'.workflow_start_time = NoStart)]_vars

\* C15: a render_log_viewer call repeated with the same files, modification
\* times and workflowStartTime selects what the call before it selected.
C15_RepeatedCallsAgree ==
    [][(CallEnds /\ log_calls >= 1)
         => /\ SelectionOf(log_outcome') = SelectionOf(log_outcome)
            /\ ss'.active_log_file = ss.active_log_file]_vars

C15_Witness ==
    /\ fired = "render_log_viewer" /\ log_calls = 2
    /\ log_outcome = "tail"
    /\ StartSet
    /\ \E f \in DOMAIN log_files \ {ss.active_log_file} :
          log_files[f] = log_files[ss.active_log_file]

\* C18: when the read of the selected file fails, the error names the file,
\* nothing is displayed and the file is not left as the remembered active log.
C18_ReadErrorLeavesNoActiveLog ==
    (fired = "render_log_viewer" /\ log_outcome = "read_error")
      => /\ log_error \in DOMAIN log_files
         /\ log_displayed = "None"
         /\ ss.active_log_file # log_error

(* ------------------------------- tail --------------------------------- *)

\* the lines of the file that hold a character other than whitespace
RECURSIVE NonBlankLines(_)
NonBlankLines(content) ==
    IF content = <<>> THEN <<>>
    ELSE IF Head(content).len > 0
         THEN <<Head(content)>> \o NonBlankLines(Tail(content))
         ELSE NonBlankLines(Tail(content))

\* the record a non-blank line stands for: classified by level if the line is
\* a JSON object with string values, raw text otherwise
RecordClass(line) ==
    IF line.kind = "object" /\ line.strings
    THEN IF line.level = "ERROR" THEN "#ff4444"
         ELSE IF line.level = "WARNING" THEN "#ffaa00"
         ELSE IF line.level = "task_success" THEN "#00ff88"
         ELSE "#00d4ff"
    ELSE "raw"

\* C16: a tail that ends without an exception displays the last
\* min(k, max_lines) of the file's k non-blank lines, in file order.
C16_LastNonBlankLines ==
    tail.outcome \in {"rendered", "empty_file"}
      => LET nb == NonBlankLines(tail.content)
             k == Len(nb)
             m == IF k <= tail.max_lines THEN k ELSE tail.max_lines
         IN /\ Len(tail.records) = m
            /\ \A i \in 1..m :
                 tail.records[i].level_color = RecordClass(nb[k - m + i])

\* C17: every non-blank line of the tail window gives exactly one record, in
\* file order, classified by level or raw and cut to 200 characters, and the
\* tail never ends with an exception.
C17_OneRecordPerLine ==
    tail.outcome # "not_called"
      => LET window == NonBlankLines(LastItems(tail.content, tail.max_lines))
         IN /\ tail.outcome # "raised"
            /\ Len(tail.records) = Len(window)
            /\ \A i \in DOMAIN window :
                 /\ tail.records[i].level_color = RecordClass(window[i])
                 /\ tail.records[i].len <= 200

(* ------------------------------- feed --------------------------------- *)

\* C19: a render displays the last min(max_items, n) events of the store,
\* newest first, shows the empty state exactly when the store is empty, and
\* does not change the store unless the clear button was pressed.
C19_LastEventsNewestFirst ==
    [][fired' \in {"render_sidebar_feed", "clear_sidebar_feed"}
         => LET n == Len(sidebar_events')
                m == IF feed'.max_items <= n THEN feed'.max_items ELSE n
            IN /\ feed'.cards = [i \in 1..m |-> sidebar_events'[n + 1 - i]]
               /\ feed'.empty_state <=> (sidebar_events' = <<>>)
               /\ fired' = "render_sidebar_feed" => sidebar_events' = sidebar_events]_vars

C19_Witness ==
    /\ fired = "render_sidebar_feed"
    /\ feed.max_items = 2
    /\ Len(sidebar_events) = 3
    /\ feed.cards = <<sidebar_events[3], sidebar_events[2]>>
    /\ ~feed.empty_state

\* the contiguous suffixes of a sequence
Suffixes(s) == {SubSeq(s, i, Len(s)) : i \in 1..(Len(s) + 1)}

C21_SelectorFrame ==
    [][fired' = "render_log_viewer"
         => /\ viewer'.pc # "idle" => ss' = ss
            /\ CallEnds =>
                 /\ log_outcome' = "tail" => ss'.active_log_file = log_displayed'
                 /\ log_outcome' = "read_error" => ss'.active_log_file = log_error'
                 /\ log_outcome' \in {"no_directory", "no_files", "waiting"}
                      => ss'.active_log_file = ss.active_log_file
            /\ ss' = [ss EXCEPT !.active_log_file = ss'.active_log_file]
            /\ log_files' = log_files
            /\ logs_dir_exists' = logs_dir_exists]_vars

C21_Witness ==
    /\ fired = "render_log_viewer" /\ log_outcome = "waiting"
    /\ viewer.pc = "idle"
    /\ ss.active_log_file \in DOMAIN log_files
    /\ ss.workflow_start_time # NoStart

\* C22: an accepted 'generate questions' empties the questions, the answers
\* and the requirements document, clears the confirmed document and its flag,
\* sets questions_generating, clears requirements_generating and
\* requirements_editing, and stores the stripped input as initial requirement.
C22_GenerateQuestionsEffect ==
    [][(fired' = "generate_questions" /\ Strip(Session.guided_initial_requirement) # <<>>)
         => /\ ss'.generated_questions = <<>>
            /\ ss'.user_answers = EmptyMap
            /\ ss'.detailed_requirements = <<>>
            /\ ss'.confirmed_requirement_text = None
            /\ ~ss'.requirements_confirmed
            /\ ss'.questions_generating
            /\ ~ss'.requirements_generating
            /\ ~ss'.requirements_editing
            /\ ss'.initial_requirement = Strip(Session.guided_initial_requirement)
            /\ ss'.guided_initial_requirement = Session.guided_initial_requirement]_vars

C22_Witness ==
    /\ fired = "generate_questions" /\ accepted
    /\ prev_doc # None
    /\ ss.confirmed_requirement_text = None
    /\ ss.questions_generating
    /\ ss.initial_requirement # ss.guided_initial_requirement

\* the stripped text of the answer widget of question i (counted from 1)
\* during a call in the questions stage
TrimmedAnswer(i) == Strip(RenderAnswerInputs(ss).guided_answer[i - 1])

\* C23: after 'generate doc from answers' user_answers maps the id of every
\* question whose stripped answer is non-empty to that stripped answer and has
\* no other key and no empty value; after 'generate doc without answers' it is
\* empty; both empty the requirements document, clear the confirmation and
\* set requirements_generating.
C23_AnswersSnapshot ==
    [][(fired' \in {"generate_doc", "generate_doc_without_answers"} /\ accepted')
         => LET qs == ss.generated_questions
                answers == ss'.user_answers
            IN /\ fired' = "generate_doc"
                    => /\ \A i \in 1..Len(qs) :
                            TrimmedAnswer(i) # <<>>
                              => /\ QId(qs, i) \in DOMAIN answers
                                 /\ answers[QId(qs, i)] = TrimmedAnswer(i)
                       /\ \A k \in DOMAIN answers :
                            /\ answers[k] # <<>>
                            /\ \E i \in 1..Len(qs) :
                                 QId(qs, i) = k /\ TrimmedAnswer(i) # <<>>
               /\ fired' = "generate_doc_without_answers" => answers = EmptyMap
               /\ ss'.detailed_requirements = <<>>
               /\ ss'.confirmed_requirement_text = None
               /\ ~ss'.requirements_confirmed
               /\ ss'.requirements_generating]_vars

\* C24: the edit feedback input is empty after every accepted 'submit change'
\* (which stores the stripped text and sets requirements_editing), after
\* 'request edit' and after 'back to summary'.
C24_FeedbackTransient ==
    [][(fired' \in {"submit_change", "request_edit", "back_to_summary"} /\ accepted')
         => /\ ss'.guided_edit_feedback = <<>>
            /\ fired' = "submit_change"
                 => /\ ss'.edit_feedback = Strip(Session.guided_edit_feedback)
                    /\ ss'.requirements_editing]_vars

\* C25: a render in which the clear button was pressed leaves the store empty
\* and shows the empty state; the feed render without that button, the system
\* monitor and the log viewer leave the store as it was.
C25_OnlyClearChangesStore ==
    [][/\ fired' = "clear_sidebar_feed"
            => /\ sidebar_events' = <<>>
               /\ feed'.empty_state
               /\ feed'.cards = <<>>
       /\ fired' \in {"render_sidebar_feed", "render_system_monitor",
                      "render_log_viewer"}
            => sidebar_events' = sidebar_events]_vars

C25_Witness ==
    /\ fired = "clear_sidebar_feed"
    /\ \E s \in feed.seen : Len(s) >= 2
    /\ feed.latest_event # "None"
    /\ sidebar_events = <<>>
    /\ feed.empty_state

\* C26: with a write-back that clears its flag in the step in which it writes,
\* at most one of questions_generating, requirements_generating and
\* requirements_editing is true, questions_generating only in stage
\* "questions", requirements_generating only in stage "summary" with an empty
\* requirements document.
C26_InFlightFlags ==
    /\ Cardinality({f \in {"questions_generating", "requirements_generating",
                           "requirements_editing"} : ss[f]}) <= 1
    /\ ss.questions_generating => Step = "questions"
    /\ ss.requirements_generating
         => (Step = "summary" /\ ss.detailed_requirements = <<>>)

C26_Witness ==
    /\ fired = "apply_edit"
    /\ ~ss.requirements_editing
    /\ Step = "editing"
    /\ ss.edit_feedback # <<>>
    /\ ss.user_answers # EmptyMap

\* C27: whenever the session is confirmed in stage "summary" or "editing", the
\* confirmed document is the stripped requirements document, also when an
\* edited document is written back after the confirmation.
C27_ConfirmedIsCurrentDocument ==
    (ss.requirements_confirmed /\ Step \in {"summary", "editing"})
      => ss.confirmed_requirement_text = Summary(ss)

\* whether a confirmed document is present in session s
HasDocument(s) == s.confirmed_requirement_text # None /\ s.confirmed_requirement_text # <<>>

\* C28: a guided_requirement_workflow call that returns, returns the confirmed
\* document of the start of the call, with confirmed true exactly when that
\* document is non-empty; a confirmation made by the call is returned by the
\* next call only, and no call returns confirmed for a document it cleared.
C28_ReturnsDocumentOfCallStart ==
    [][ret'.kind = "return"
         => /\ ret'.confirmed <=> HasDocument(ss)
            /\ ret'.doc = IF HasDocument(ss) THEN ss.confirmed_requirement_text ELSE None
            /\ ret'.confirmed => HasDocument(ss')]_vars

C28_Witness ==
    /\ fired = "confirm" /\ accepted
    /\ prev_doc = None
    /\ ret.kind = "return" /\ ~ret.confirmed /\ ret.doc = None
    /\ ss.requirements_confirmed
    /\ HasDocument(ss)

====
